---- MODULE Spec2Model ----
(***************************************************************************)
(* Model of src/app.py: the /search handler (search), the embedding        *)
(* validator (validate_embedding) and the context assembler                *)
(* (get_rag_context) of the EDS context vector-database search API.        *)
(*                                                                         *)
(* JSON values are tagged: a value is a record whose field t is the Python *)
(* type the JSON decoder gives it ("list", "int", "float", "bool", "str",  *)
(* "NoneType", "dict").  Elements of an embedding list are kept as their   *)
(* type tag alone, the only thing validate_embedding reads of them.        *)
(* Scores and the score threshold are in hundredths (0.81 is 81).          *)
(***************************************************************************)
EXTENDS Integers, Sequences, FiniteSets, TLC

VARIABLES
    globals,         \* module-level names: EMBEDDING_DIMENSION, SCORE_THRESHOLD, pinecone_index
    body,            \* body[r]: the JSON body of request r (request.get_json())
    pc,              \* pc[r]: position of request r's handler
    valid,           \* valid[r]: (is_valid, error_message) of search, line 162
    top_k,           \* top_k[r]: local top_k of search, line 170
    retrieved_docs,  \* retrieved_docs[r]: retrieved_docs["matches"] of get_rag_context
    i,               \* i[r]: position of the for loop of line 25 (next match to visit)
    context,         \* context[r]: local context of get_rag_context
    exc,             \* exc[r]: the exception in flight, caught at lines 183-192
    response,        \* response[r]: the (body, status) pair the handler returns
    nqueries,        \* nqueries[r]: pinecone_index.query calls made for request r
    upstream         \* upstream[r]: what the index answered to request r's query

vars == <<globals, body, pc, valid, top_k, retrieved_docs, i, context, exc,
          response, nqueries, upstream>>

-----------------------------------------------------------------------------
(* Program constants *)

EMBEDDING_DIMENSION == 1536

SCORE_THRESHOLD == 81

DEFAULT_TOP_K == 2

SENTINEL == "Context not related to EDS"

MSG_NOT_LIST == "query_embedding must be a list of numbers"

MSG_DIMENSION == "query_embedding must have exactly {EMBEDDING_DIMENSION} dimensions (text-embedding-ada-002 format)"

MSG_NOT_NUMBERS == "query_embedding must contain only numbers"

MSG_TOP_K == "top_k must be a positive integer"

MSG_REQUIRED == "Must provide an embedding from text-embedding-ada-002 model"

\* An f-string: its literal text and the values interpolated into it.
Message(text, args) == [text |-> text, args |-> args]

NoMessage == Message("", <<>>)

-----------------------------------------------------------------------------
(* Bounds of the model *)

\* Longest list of matches the index answers with (also capped by top_k).
MaxMatches == 2

-----------------------------------------------------------------------------
(* validate_embedding, lines 41-52 *)

\* isinstance(x, (int, float)): bool is a subclass of int.
IsNumber(x) == x \in {"int", "float", "bool"}

\* isinstance(x, int)
IsInt(v) == v.t \in {"int", "bool"}

\* Variant with the element rule applied before the length rule.
validate_embedding_elements_first(embedding, dimension) ==
    IF embedding.t # "list"
    THEN [is_valid |-> FALSE, error_message |-> Message(MSG_NOT_LIST, <<>>)]
    ELSE IF \E k \in 1..Len(embedding.l) : ~IsNumber(embedding.l[k])
    THEN [is_valid |-> FALSE, error_message |-> Message(MSG_NOT_NUMBERS, <<>>)]
    ELSE IF Len(embedding.l) # dimension
    THEN [is_valid |-> FALSE, error_message |-> Message(MSG_DIMENSION, <<dimension>>)]
    ELSE [is_valid |-> TRUE, error_message |-> NoMessage]

validate_embedding(embedding, dimension) ==
    IF embedding.t # "list"
    THEN [is_valid |-> FALSE, error_message |-> Message(MSG_NOT_LIST, <<>>)]
    ELSE IF Len(embedding.l) # dimension
    THEN [is_valid |-> FALSE, error_message |-> Message(MSG_DIMENSION, <<dimension>>)]
    ELSE IF ~(\A k \in 1..Len(embedding.l) : IsNumber(embedding.l[k]))
    THEN [is_valid |-> FALSE, error_message |-> Message(MSG_NOT_NUMBERS, <<>>)]
    ELSE [is_valid |-> TRUE, error_message |-> NoMessage]

-----------------------------------------------------------------------------
(* Metadata extraction of get_rag_context, lines 27-32 *)

NODE_OK == "{\"metadata\": {\"text\": \"nested passage\"}}"

NODE_NO_TEXT == "{\"metadata\": {}}"

NODE_NO_METADATA == "{}"

NODE_MALFORMED == "{\"metadata\": "

EmptyDict == [k \in {} |-> ""]

\* json.loads on the nested strings the index holds: the decoded value, or
\* JSONDecodeError.
json_loads(s) ==
    CASE s = NODE_OK          -> [ok |-> TRUE, value |-> [metadata |-> [text |-> "nested passage"]]]
      [] s = NODE_NO_TEXT     -> [ok |-> TRUE, value |-> [metadata |-> EmptyDict]]
      [] s = NODE_NO_METADATA -> [ok |-> TRUE, value |-> EmptyDict]
      [] OTHER                -> [ok |-> FALSE, value |-> EmptyDict]

Extracted(text, prov) == [raised |-> FALSE, key |-> "", text |-> text, prov |-> prov]

\* An exception raised by the extraction: KeyError(key), or json.JSONDecodeError.
Raised(key) == [raised |-> TRUE, key |-> key, text |-> "", prov |-> ""]

\* Lines 28-29: the try block.
Primary(md) ==
    IF "_node_content" \notin DOMAIN md THEN Raised("_node_content")
    ELSE LET j == json_loads(md["_node_content"]) IN
         IF ~j.ok THEN Raised("JSONDecodeError")
         ELSE IF "metadata" \notin DOMAIN j.value THEN Raised("metadata")
         ELSE IF "text" \notin DOMAIN j.value["metadata"] THEN Raised("text")
         ELSE IF "c_document_id" \notin DOMAIN md THEN Raised("c_document_id")
         ELSE Extracted(j.value["metadata"]["text"], md["c_document_id"])

\* Lines 31-32: the except block; what it raises leaves get_rag_context.
Fallback(md) ==
    IF "text" \notin DOMAIN md THEN Raised("text")
    ELSE IF "c_document_id" \notin DOMAIN md THEN Raised("c_document_id")
    ELSE Extracted(md["text"], md["c_document_id"])

\* Variant whose except block reads the provenance from another field.
ExtractOtherProvenance(doc) ==
    LET p == Primary(doc.metadata) IN
    IF ~p.raised THEN p
    ELSE IF "text" \notin DOMAIN doc.metadata THEN Raised("text")
    ELSE IF "document_id" \notin DOMAIN doc.metadata THEN Raised("document_id")
    ELSE Extracted(doc.metadata["text"], doc.metadata["document_id"])

\* Lines 27-32.
Extract(doc) ==
    LET p == Primary(doc.metadata) IN
    IF ~p.raised THEN p ELSE Fallback(doc.metadata)

\* Line 34: the f-string appended to context.
Block(e) == e.text \o "(Ref: " \o e.prov \o ".)\n"

\* Variant of the comparison of line 26 that lets the threshold itself pass.
QualifiesInclusive(doc, score_thresh) == doc.score >= score_thresh

\* Line 26.
Qualifies(doc, score_thresh) == doc.score > score_thresh

-----------------------------------------------------------------------------
(* Inputs: request bodies and the documents the index holds *)

Vec(n, strs, bools) ==
    [t |-> "list",
     l |-> [k \in 1..n |-> IF k \in strs THEN "str"
                           ELSE IF k \in bools THEN "bool"
                           ELSE IF k % 2 = 0 THEN "int" ELSE "float"]]

Scalar(t) == [t |-> t, l |-> <<>>]

GoodVec == Vec(EMBEDDING_DIMENSION, {}, {})

Embeddings ==
    { Scalar("str"), Scalar("NoneType"), Scalar("dict"), Scalar("float"),
      GoodVec,
      Vec(EMBEDDING_DIMENSION, {}, {2}),
      Vec(EMBEDDING_DIMENSION, {1}, {}),
      Vec(EMBEDDING_DIMENSION, {3, 5}, {}),
      Vec(EMBEDDING_DIMENSION, {EMBEDDING_DIMENSION}, {}),
      Vec(EMBEDDING_DIMENSION - 1, {}, {}),
      Vec(EMBEDDING_DIMENSION - 1, {4}, {}),
      Vec(EMBEDDING_DIMENSION + 1, {}, {}),
      Vec(EMBEDDING_DIMENSION + 1, {1}, {}),
      Vec(0, {}, {}) }

\* A top_k value: n is its number (True is 1, False is 0; a float 2.0 is n = 2).
TopKs ==
    { [t |-> "int", n |-> -1], [t |-> "int", n |-> 0], [t |-> "int", n |-> 1],
      [t |-> "int", n |-> 2], [t |-> "int", n |-> 3],
      [t |-> "float", n |-> 2], [t |-> "str", n |-> 0], [t |-> "NoneType", n |-> 0],
      [t |-> "bool", n |-> 1], [t |-> "bool", n |-> 0] }

Dict(d) == [t |-> "dict", d |-> d]

\* The JSON null body: request.get_json() is None.
NullBody == [t |-> "NoneType", d |-> EmptyDict]

Bodies ==
    { NullBody, Dict(EmptyDict) }
    \cup { Dict([top_k |-> k]) : k \in {[t |-> "int", n |-> 1]} }
    \cup { Dict([query_embedding |-> e]) : e \in Embeddings }
    \cup { Dict([query_embedding |-> e, top_k |-> k]) : e \in Embeddings, k \in TopKs }

Doc(score, md) == [score |-> score, metadata |-> md]

MdNested == [_node_content |-> NODE_OK, text |-> "flat passage", c_document_id |-> "PMID1"]

MdMalformed == [_node_content |-> NODE_MALFORMED, text |-> "flat two", c_document_id |-> "PMID2"]

MdFlat == [text |-> "flat three", c_document_id |-> "GR3"]

MdNestedNoText == [_node_content |-> NODE_NO_TEXT, text |-> "", c_document_id |-> "PMID4"]

MdNestedNoMetadata == [_node_content |-> NODE_NO_METADATA, text |-> "flat five", c_document_id |-> "PMID5"]

MdNoText == [c_document_id |-> "PMID6"]

MdMalformedNoText == [_node_content |-> NODE_MALFORMED, c_document_id |-> "PMID7"]

MdFlatNoProvenance == [text |-> "flat eight"]

MdNestedNoProvenance == [_node_content |-> NODE_OK]

Metadatas ==
    { MdNested, MdMalformed, MdFlat, MdNestedNoText, MdNestedNoMetadata, MdNoText,
      MdMalformedNoText, MdFlatNoProvenance, MdNestedNoProvenance }

\* The documents of the index, each with the score it gets for the query.
Docs ==
    { Doc(95, md) : md \in Metadatas }
    \cup { Doc(SCORE_THRESHOLD, MdNested), Doc(SCORE_THRESHOLD, MdNoText), Doc(70, MdFlat) }

SeqsUpTo(S, n) == UNION { [1..k -> S] : k \in 0..n }

Min(a, b) == IF a < b THEN a ELSE b

\* pinecone_index.query(vector, top_k, include_metadata=True): at most top_k matches.
QueryAnswers(index, k) == SeqsUpTo(index, Min(k, MaxMatches))

-----------------------------------------------------------------------------
(* State *)

Response(status, error, details, ctx) ==
    [status |-> status, error |-> error, details |-> details, context |-> ctx]

NoResponse == Response(0, "", NoMessage, "")

Exception(type, msg) == [type |-> type, msg |-> msg]

NoException == Exception("", "")

NotCalled == [called |-> FALSE, failed |-> FALSE, matches |-> <<>>]

NoTopK == [t |-> "NoneType", n |-> 0]

NotValidated == [is_valid |-> FALSE, error_message |-> NoMessage]

\* Lines 10-15: the module-level names, and one handler per request in flight.
InitWith(requests, bodies, index) ==
    /\ globals = [EMBEDDING_DIMENSION |-> EMBEDDING_DIMENSION,
                  SCORE_THRESHOLD |-> SCORE_THRESHOLD,
                  pinecone_index |-> index]
    /\ body \in [requests -> bodies]
    /\ pc = [r \in requests |-> "start"]
    /\ valid = [r \in requests |-> NotValidated]
    /\ top_k = [r \in requests |-> NoTopK]
    /\ retrieved_docs = [r \in requests |-> <<>>]
    /\ i = [r \in requests |-> 0]
    /\ context = [r \in requests |-> ""]
    /\ exc = [r \in requests |-> NoException]
    /\ response = [r \in requests |-> NoResponse]
    /\ nqueries = [r \in requests |-> 0]
    /\ upstream = [r \in requests |-> NotCalled]

\* The requests in flight, and the identifiers a request can have.
Requests == DOMAIN pc

RequestIds == {1, 2}

\* Request r is in flight and its handler is at position p.
At(r, p) == r \in Requests /\ pc[r] = p

Init == InitWith({1}, Bodies, Docs)

-----------------------------------------------------------------------------
(* search, lines 147-192, and get_rag_context, lines 17-39 *)

\* Lines 151-158: read the body, require the query_embedding key.
GetData(r) ==
    /\ At(r, "start")
    /\ IF body[r].t = "NoneType"
       THEN /\ exc' = [exc EXCEPT ![r] =
                         Exception("TypeError", "argument of type 'NoneType' is not iterable")]
            /\ pc' = [pc EXCEPT ![r] = "except"]
            /\ UNCHANGED response
       ELSE IF "query_embedding" \notin DOMAIN body[r].d
       THEN /\ response' = [response EXCEPT ![r] =
                 Response(400, "query_embedding is required", Message(MSG_REQUIRED, <<>>), "")]
            /\ pc' = [pc EXCEPT ![r] = "done"]
            /\ UNCHANGED exc
       ELSE /\ pc' = [pc EXCEPT ![r] = "validate"]
            /\ UNCHANGED <<exc, response>>
    /\ UNCHANGED <<globals, body, valid, top_k, retrieved_docs, i, context,
                   nqueries, upstream>>

\* Lines 161-167: validate the embedding.
Validate(r) ==
    /\ At(r, "validate")
    /\ LET v == validate_embedding(body[r].d["query_embedding"], globals.EMBEDDING_DIMENSION) IN
       /\ valid' = [valid EXCEPT ![r] = v]
       /\ IF ~v.is_valid
          THEN /\ response' = [response EXCEPT ![r] =
                    Response(400, "Invalid embedding format", v.error_message, "")]
               /\ pc' = [pc EXCEPT ![r] = "done"]
          ELSE /\ pc' = [pc EXCEPT ![r] = "top_k"]
               /\ UNCHANGED response
    /\ UNCHANGED <<globals, body, top_k, retrieved_docs, i, context, exc,
                   nqueries, upstream>>

\* data.get('top_k', 2)
GetTopK(d) == IF "top_k" \in DOMAIN d THEN d["top_k"] ELSE [t |-> "int", n |-> DEFAULT_TOP_K]

\* Line 171: not isinstance(top_k, int) or top_k < 1
TopKRejected(k) == ~IsInt(k) \/ k.n < 1

\* Variant of lines 170-175 that queries the index before it looks at top_k.
CheckTopKAfterQuery(r) ==
    /\ At(r, "top_k")
    /\ LET k == GetTopK(body[r].d) IN
       /\ top_k' = [top_k EXCEPT ![r] = k]
       /\ nqueries' = [nqueries EXCEPT ![r] = @ + 1]
       /\ IF TopKRejected(k)
          THEN /\ response' = [response EXCEPT ![r] =
                    Response(400, "Invalid top_k value", Message(MSG_TOP_K, <<>>), "")]
               /\ pc' = [pc EXCEPT ![r] = "done"]
          ELSE /\ pc' = [pc EXCEPT ![r] = "query"]
               /\ UNCHANGED response
    /\ UNCHANGED <<globals, body, valid, retrieved_docs, i, context, exc, upstream>>

\* Lines 170-175: validate top_k.
CheckTopK(r) ==
    /\ At(r, "top_k")
    /\ LET k == GetTopK(body[r].d) IN
       /\ top_k' = [top_k EXCEPT ![r] = k]
       /\ IF TopKRejected(k)
          THEN /\ response' = [response EXCEPT ![r] =
                    Response(400, "Invalid top_k value", Message(MSG_TOP_K, <<>>), "")]
               /\ pc' = [pc EXCEPT ![r] = "done"]
          ELSE /\ pc' = [pc EXCEPT ![r] = "query"]
               /\ UNCHANGED response
    /\ UNCHANGED <<globals, body, valid, retrieved_docs, i, context, exc,
                   nqueries, upstream>>

\* Lines 18-22, the call raising: network, authentication or service error.
QueryFails(r) ==
    /\ At(r, "query")
    /\ nqueries' = [nqueries EXCEPT ![r] = @ + 1]
    /\ upstream' = [upstream EXCEPT ![r] = [called |-> TRUE, failed |-> TRUE, matches |-> <<>>]]
    /\ exc' = [exc EXCEPT ![r] = Exception("PineconeException", "index query failed")]
    /\ pc' = [pc EXCEPT ![r] = "except"]
    /\ UNCHANGED <<globals, body, valid, top_k, retrieved_docs, i, context, response>>

\* Lines 18-24, the call answering with its matches; context = ''.
QueryAnswersWith(r) ==
    /\ At(r, "query")
    /\ \E ms \in QueryAnswers(globals.pinecone_index, top_k[r].n) :
          /\ upstream' = [upstream EXCEPT ![r] = [called |-> TRUE, failed |-> FALSE, matches |-> ms]]
          /\ retrieved_docs' = [retrieved_docs EXCEPT ![r] = ms]
    /\ nqueries' = [nqueries EXCEPT ![r] = @ + 1]
    /\ context' = [context EXCEPT ![r] = ""]
    /\ i' = [i EXCEPT ![r] = 1]
    /\ pc' = [pc EXCEPT ![r] = "loop"]
    /\ UNCHANGED <<globals, body, valid, top_k, exc, response>>

\* Variant of line 34 with one buffer shared by all the handlers.
AppendBlockShared(ctx, r, block) == [q \in DOMAIN ctx |-> ctx[q] \o block]

\* Line 34: context += block, on the handler's own local.
AppendBlock(ctx, r, block) == [ctx EXCEPT ![r] = @ \o block]

\* Lines 25-34: one pass of the for loop, or its end.
Loop(r) ==
    /\ At(r, "loop")
    /\ IF i[r] > Len(retrieved_docs[r])
       THEN /\ pc' = [pc EXCEPT ![r] = "return"]
            /\ UNCHANGED <<i, context, exc>>
       ELSE LET doc == retrieved_docs[r][i[r]] IN
            IF ~Qualifies(doc, globals.SCORE_THRESHOLD)
            THEN /\ i' = [i EXCEPT ![r] = @ + 1]
                 /\ UNCHANGED <<pc, context, exc>>
            ELSE LET e == Extract(doc) IN
                 IF e.raised
                 THEN /\ exc' = [exc EXCEPT ![r] = Exception("KeyError", e.key)]
                      /\ pc' = [pc EXCEPT ![r] = "except"]
                      /\ UNCHANGED <<i, context>>
                 ELSE /\ context' = AppendBlock(context, r, Block(e))
                      /\ i' = [i EXCEPT ![r] = @ + 1]
                      /\ UNCHANGED <<pc, exc>>
    /\ UNCHANGED <<globals, body, valid, top_k, retrieved_docs, response,
                   nqueries, upstream>>

\* Variant of lines 36-39 that returns the buffer as it is.
ReturnedContextNoSentinel(ctx) == ctx

\* Lines 36-39.
ReturnedContext(ctx) == IF ctx # "" THEN ctx ELSE SENTINEL

\* Lines 36-39 and 178-181: return the context, answer 200.
Return(r) ==
    /\ At(r, "return")
    /\ response' = [response EXCEPT ![r] =
                      Response(200, "", NoMessage, ReturnedContext(context[r]))]
    /\ pc' = [pc EXCEPT ![r] = "done"]
    /\ UNCHANGED <<globals, body, valid, top_k, retrieved_docs, i, context, exc,
                   nqueries, upstream>>

\* Lines 183-192: the except clauses of search.
HandleException(r) ==
    /\ At(r, "except")
    /\ response' = [response EXCEPT ![r] =
          IF exc[r].type = "JSONDecodeError"
          THEN Response(400, "Invalid JSON", Message("Request body must be valid JSON", <<>>), "")
          ELSE Response(500, "Internal server error", Message(exc[r].msg, <<>>), "")]
    /\ pc' = [pc EXCEPT ![r] = "done"]
    /\ UNCHANGED <<globals, body, valid, top_k, retrieved_docs, i, context, exc,
                   nqueries, upstream>>

Next ==
    \E r \in RequestIds :
        \/ GetData(r)
        \/ Validate(r)
        \/ CheckTopK(r)
        \/ QueryFails(r)
        \/ QueryAnswersWith(r)
        \/ Loop(r)
        \/ Return(r)
        \/ HandleException(r)

Spec == Init /\ [][Next]_vars

-----------------------------------------------------------------------------
(* Simultaneous requests: two handlers interleaved line by line, sharing   *)
(* the module-level names.                                                 *)

ConcBodies ==
    { NullBody,
      Dict(EmptyDict),
      Dict([query_embedding |-> Vec(EMBEDDING_DIMENSION - 1, {}, {})]),
      Dict([query_embedding |-> GoodVec, top_k |-> [t |-> "int", n |-> 0]]),
      Dict([query_embedding |-> GoodVec, top_k |-> [t |-> "int", n |-> 1]]),
      Dict([query_embedding |-> GoodVec]) }

ConcDocs == { Doc(95, MdNested), Doc(95, MdFlat), Doc(95, MdNoText), Doc(SCORE_THRESHOLD, MdNested) }

InitConc == InitWith(RequestIds, ConcBodies, ConcDocs)

SpecConc == InitConc /\ [][Next]_vars

-----------------------------------------------------------------------------
(* The handler run alone, as a function of its body and of what the index  *)
(* answers.                                                                *)

RECURSIVE Assemble(_, _, _, _)
\* Lines 24-39 on the matches ms from position k on, context so far acc.
Assemble(ms, k, acc, score_thresh) ==
    IF k > Len(ms)
    THEN Response(200, "", NoMessage, IF acc # "" THEN acc ELSE SENTINEL)
    ELSE IF ms[k].score > score_thresh
    THEN LET e == Extract(ms[k]) IN
         IF e.raised
         THEN Response(500, "Internal server error", Message(e.key, <<>>), "")
         ELSE Assemble(ms, k + 1, acc \o Block(e), score_thresh)
    ELSE Assemble(ms, k + 1, acc, score_thresh)

\* Lines 149-192, given the answer up of the index to the one query.
RunAlone(b, up) ==
    IF b.t = "NoneType"
    THEN Response(500, "Internal server error",
                  Message("argument of type 'NoneType' is not iterable", <<>>), "")
    ELSE IF "query_embedding" \notin DOMAIN b.d
    THEN Response(400, "query_embedding is required", Message(MSG_REQUIRED, <<>>), "")
    ELSE LET v == validate_embedding(b.d["query_embedding"], EMBEDDING_DIMENSION) IN
         IF ~v.is_valid
         THEN Response(400, "Invalid embedding format", v.error_message, "")
         ELSE IF TopKRejected(GetTopK(b.d))
         THEN Response(400, "Invalid top_k value", Message(MSG_TOP_K, <<>>), "")
         ELSE IF up.failed
         THEN Response(500, "Internal server error", Message("index query failed", <<>>), "")
         ELSE Assemble(up.matches, 1, "", SCORE_THRESHOLD)

-----------------------------------------------------------------------------
(* Properties *)

\* The handler of r has run line 162.
Validated(r) ==
    /\ body[r].t = "dict"
    /\ "query_embedding" \in DOMAIN body[r].d
    /\ pc[r] \notin {"start", "validate"}

\* The handler of r has run line 171 (it runs only on a valid embedding).
TopKChecked(r) == Validated(r) /\ valid[r].is_valid /\ pc[r] # "top_k"

\* In hundredths: the matches of ms scoring strictly above 0.81, in the order of ms.
AboveThreshold(ms) == SelectSeq(ms, LAMBDA m : m.score > SCORE_THRESHOLD)

RECURSIVE CitationBlocks(_)
\* One citation block per match of ms, in the order of ms.
CitationBlocks(ms) ==
    IF ms = <<>> THEN "" ELSE Block(Extract(Head(ms))) \o CitationBlocks(Tail(ms))

\* The index answered request r and the handler has answered the caller.
Answered(r) == pc[r] = "done" /\ upstream[r].called /\ ~upstream[r].failed

\* C1: a request rejected for its embedding (not a list, wrong dimension,
\* non-numeric element) or for its top_k (top_k = 0 included) has made no
\* query to the index, and a query is made only after the embedding has passed
\* validate_embedding and top_k has passed the check of line 171.
C1_NoQueryBeforeValidation ==
    \A r \in Requests :
        /\ response[r].error \in {"Invalid embedding format", "Invalid top_k value"}
              => nqueries[r] = 0
        /\ nqueries[r] > 0 => TopKChecked(r) /\ ~TopKRejected(GetTopK(body[r].d))

C1_Witness ==
    \E r \in Requests :
        /\ pc[r] = "done"
        /\ response[r].error = "Invalid top_k value"
        /\ top_k[r] = [t |-> "int", n |-> 0]
        /\ nqueries[r] = 0

\* C2: the context get_rag_context returns is the citation blocks of the
\* matches scoring strictly above the threshold, one block per such match, in the
\* order the index returned them; a match scoring at or below the threshold
\* (equal included) contributes nothing, and when no match scores above it the
\* returned value holds no block at all (it is the sentinel).
C2_OneBlockPerQualifyingMatchInOrder ==
    \A r \in Requests :
        (pc[r] = "done" /\ response[r].status = 200) =>
            LET q == AboveThreshold(upstream[r].matches) IN
            response[r].context = IF q = <<>> THEN SENTINEL ELSE CitationBlocks(q)

C2_Witness ==
    \E r \in Requests :
        /\ pc[r] = "done"
        /\ response[r].status = 200
        /\ Len(upstream[r].matches) = 2
        /\ upstream[r].matches[1].score = SCORE_THRESHOLD
        /\ upstream[r].matches[2].score > SCORE_THRESHOLD
        /\ response[r].context = "flat three(Ref: GR3.)\n"

\* C3: when every match scores at or below the threshold (no match at all
\* included), get_rag_context returns the sentinel string, which is not the
\* empty string, and the request is answered 200 with it.
C3_SentinelWhenNothingQualifies ==
    \A r \in Requests :
        (Answered(r) /\ \A k \in 1..Len(upstream[r].matches) :
                            upstream[r].matches[k].score <= SCORE_THRESHOLD) =>
            /\ response[r].status = 200
            /\ response[r].context = SENTINEL
            /\ response[r].context # ""

C3_Witness ==
    \E r \in Requests :
        /\ Answered(r)
        /\ Len(upstream[r].matches) = 2
        /\ upstream[r].matches[1].score = SCORE_THRESHOLD
        /\ upstream[r].matches[2].score < SCORE_THRESHOLD
        /\ response[r].context = "Context not related to EDS"

\* C4: a request (carrying a JSON object) whose index query fails ends in a
\* non-200 outcome without a context, and the kind of that outcome (status 500,
\* "Internal server error") is given to no request whose index query did not
\* fail.
C4_UpstreamFailureIsDistinct ==
    \A r \in Requests :
        (pc[r] = "done" /\ body[r].t = "dict") =>
            /\ upstream[r].failed => response[r].status # 200 /\ response[r].context = ""
            /\ (response[r].status = 500 /\ response[r].error = "Internal server error")
                  => upstream[r].failed

\* C5: an extraction anomaly (malformed nested encoding, text missing in
\* both places, provenance identifier missing) never raises out of
\* get_rag_context: once the index has answered, the handler never holds an
\* exception and every match of the answer is visited.
C5_ExtractionNeverEscalates ==
    \A r \in Requests :
        (upstream[r].called /\ ~upstream[r].failed) =>
            /\ exc[r] = NoException
            /\ pc[r] = "done" => /\ response[r].status = 200
                                 /\ i[r] = Len(retrieved_docs[r]) + 1

\* C6: validate_embedding applies its rules in the order list, length,
\* elements: a value that is no list is rejected as no list; a list of any
\* other length than EMBEDDING_DIMENSION is rejected for its dimension, also when
\* it holds non-numeric elements; and the non-numeric rejection is given only to
\* a list of exactly EMBEDDING_DIMENSION elements.
C6_RulesInOrder ==
    \A r \in Requests :
        Validated(r) =>
            LET e == body[r].d["query_embedding"]
                m == valid[r].error_message.text
            IN /\ e.t # "list" => ~valid[r].is_valid /\ m = MSG_NOT_LIST
               /\ (e.t = "list" /\ Len(e.l) # EMBEDDING_DIMENSION)
                     => ~valid[r].is_valid /\ m = MSG_DIMENSION
               /\ m = MSG_NOT_NUMBERS
                     => e.t = "list" /\ Len(e.l) = EMBEDDING_DIMENSION
               /\ ~valid[r].is_valid
                     => pc[r] = "done" /\ response[r].details = valid[r].error_message

C6_Witness ==
    \E r \in Requests :
        LET e == body[r].d["query_embedding"] IN
        /\ Validated(r)
        /\ e.t = "list"
        /\ Len(e.l) = EMBEDDING_DIMENSION - 1
        /\ \E k \in 1..Len(e.l) : e.l[k] = "str"
        /\ response[r].details.text = MSG_DIMENSION

\* The nested field is missing or does not decode, the flat text and the
\* provenance identifier are there.
FallbackCase(md) ==
    /\ "_node_content" \notin DOMAIN md \/ ~json_loads(md["_node_content"]).ok
    /\ "text" \in DOMAIN md
    /\ "c_document_id" \in DOMAIN md

\* C7: the pass of the loop over a match scoring above the threshold whose
\* nested field is missing or does not decode, and which has the flat text and
\* the provenance identifier, appends exactly
\* "{flat text}(Ref: {c_document_id}.)\n" to the context and goes on.
C7_FallbackBlock ==
    [][\A r \in Requests :
          ( /\ pc[r] = "loop"
            /\ <<pc[r], i[r], context[r]>>' # <<pc[r], i[r], context[r]>>
            /\ i[r] <= Len(retrieved_docs[r])
            /\ retrieved_docs[r][i[r]].score > SCORE_THRESHOLD
            /\ FallbackCase(retrieved_docs[r][i[r]].metadata) )
          => LET md == retrieved_docs[r][i[r]].metadata IN
             /\ context'[r] = context[r] \o md["text"] \o "(Ref: " \o md["c_document_id"] \o ".)\n"
             /\ i'[r] = i[r] + 1
             /\ pc'[r] = "loop"]_vars

C7_Witness ==
    \E r \in Requests :
        /\ pc[r] = "loop"
        /\ i[r] = 3
        /\ retrieved_docs[r] = <<Doc(95, MdMalformed), Doc(95, MdFlat)>>
        /\ context[r] = "flat two(Ref: PMID2.)\nflat three(Ref: GR3.)\n"

\* C8: a request (with a valid embedding) whose top_k is not an integer
\* (float, string, boolean, null) or is below 1 is rejected with "Invalid top_k
\* value", and the index is queried only with an integer top_k >= 1.
C8_TopKIsPositiveInteger ==
    \A r \in Requests :
        TopKChecked(r) =>
            LET k == GetTopK(body[r].d)
                proper == k.t = "int" /\ k.n >= 1
            IN /\ ~proper => pc[r] = "done" /\ response[r].error = "Invalid top_k value"
               /\ nqueries[r] > 0 => proper

\* Position of the first non-numeric element of the list l.
FirstNonNumeric(l) ==
    CHOOSE k \in 1..Len(l) : ~IsNumber(l[k]) /\ \A j \in 1..(k - 1) : IsNumber(l[j])

\* C9: the dimension error carries the expected dimension and the actual
\* length of the vector, and the non-numeric error carries the index of the
\* first non-numeric element.
C9_ErrorsCarryDetail ==
    \A r \in Requests :
        (Validated(r) /\ ~valid[r].is_valid) =>
            LET e == body[r].d["query_embedding"]
                m == response[r].details
            IN /\ m.text = MSG_DIMENSION => m.args = <<EMBEDDING_DIMENSION, Len(e.l)>>
               /\ m.text = MSG_NOT_NUMBERS => m.args = <<FirstNonNumeric(e.l)>>

\* C10: under every interleaving of the two handlers, a request's answer is
\* the answer the handler gives run alone on the same body with the same answer
\* of the index, and no step changes EMBEDDING_DIMENSION, SCORE_THRESHOLD or
\* pinecone_index.
C10_RequestsIndependent ==
    /\ [](\A r \in Requests : pc[r] = "done" => response[r] = RunAlone(body[r], upstream[r]))
    /\ [][globals' = globals]_vars

C10_Witness ==
    /\ \A r \in Requests :
          /\ pc[r] = "done"
          /\ response[r].status = 200
    /\ response[1].context = "nested passage(Ref: PMID1.)\n"
    /\ response[2].context = "flat three(Ref: GR3.)\nnested passage(Ref: PMID1.)\n"

====
